---- MODULE Spec2Model ----
(***************************************************************************)
(* A model of go-path-ignore: the gitignore, glob and regex path matchers, *)
(* the RE2 pattern set and the PathIgnore combinator.                      *)
(*                                                                         *)
(* Strings are TLA+ strings; Ch(s, i) is the i-th character (1-based).     *)
(***************************************************************************)
EXTENDS Integers, Sequences, FiniteSets, TLC

VARIABLES
    config,     \* what the constructor was given: the options and the mode
    built,      \* what the constructor returned: the matcher and the error
    ctxErr,     \* ctx.Err() of the caller's context: Nil while it is live
    frame,      \* the Match or Match2 call on the matcher
    tasks,      \* concurrentMatch: where each per-glob task is
    closer,     \* concurrentMatch: where the task that closes foundSrc is
    foundSrc,   \* concurrentMatch: the result channel, of capacity 1
    stopped     \* concurrentMatch: stopMatch() was called

vars == <<config, built, ctxErr, frame, tasks, closer, foundSrc, stopped>>

\* The variables of concurrentMatch.
race == <<tasks, closer, foundSrc, stopped>>

(***************************************************************************)
(* String helpers (package strings).                                       *)
(***************************************************************************)
Ch(s, i) == SubSeq(s, i, i)

HasPrefix(s, p) == Len(s) >= Len(p) /\ SubSeq(s, 1, Len(p)) = p

HasSuffix(s, p) == Len(s) >= Len(p) /\ SubSeq(s, Len(s) - Len(p) + 1, Len(s)) = p

HasAt(s, i, p) == i + Len(p) - 1 <= Len(s) /\ SubSeq(s, i, i + Len(p) - 1) = p

Contains(s, p) == \E i \in 1..(Len(s) + 1) : HasAt(s, i, p)

RECURSIVE ReplaceFrom(_, _, _, _)
ReplaceFrom(s, i, old, new) ==
    IF i > Len(s) THEN ""
    ELSE IF HasAt(s, i, old) THEN new \o ReplaceFrom(s, i + Len(old), old, new)
    ELSE Ch(s, i) \o ReplaceFrom(s, i + 1, old, new)

\* strings.ReplaceAll, and Regexp.ReplaceAllString for a pattern that is one
\* literal string: leftmost, non-overlapping occurrences of old become new.
ReplaceAll(s, old, new) == ReplaceFrom(s, 1, old, new)

RECURSIVE TrimRight(_, _)
TrimRight(s, c) ==
    IF Len(s) > 0 /\ Ch(s, Len(s)) = c THEN TrimRight(SubSeq(s, 1, Len(s) - 1), c) ELSE s

RECURSIVE TrimLeft(_, _)
TrimLeft(s, c) ==
    IF Len(s) > 0 /\ Ch(s, 1) = c THEN TrimLeft(SubSeq(s, 2, Len(s)), c) ELSE s

Trim(s, c) == TrimLeft(TrimRight(s, c), c)

(***************************************************************************)
(* The regular-expression engine (go-re2), for the syntax the matchers     *)
(* produce and accept: literals, \c, ., [..], [^..], (?:..|..), ^, $ and   *)
(* the postfix operators *, + and ?.  A position p in 0..Len(s) says that  *)
(* the first p characters of s are consumed.                               *)
(***************************************************************************)
RECURSIVE ClassEnd(_, _)
ClassEnd(re, j) ==
    IF j > Len(re) THEN 0
    ELSE IF Ch(re, j) = "]" THEN j
    ELSE ClassEnd(re, j + 1)

\* Index of the "]" that closes the class opened at i, 0 when there is none.
ClassClose(re, i) == ClassEnd(re, IF HasAt(re, i + 1, "^") THEN i + 3 ELSE i + 2)

RECURSIVE ParenEnd(_, _, _)
ParenEnd(re, j, depth) ==
    IF j > Len(re) THEN 0
    ELSE IF Ch(re, j) = "\\" THEN ParenEnd(re, j + 2, depth)
    ELSE IF Ch(re, j) = "[" /\ ClassClose(re, j) # 0 THEN ParenEnd(re, ClassClose(re, j) + 1, depth)
    ELSE IF Ch(re, j) = "(" THEN ParenEnd(re, j + 1, depth + 1)
    ELSE IF Ch(re, j) = ")" THEN (IF depth = 1 THEN j ELSE ParenEnd(re, j + 1, depth - 1))
    ELSE ParenEnd(re, j + 1, depth)

\* Number of characters of the atom that starts at i.
AtomLen(re, i) ==
    LET c == Ch(re, i) IN
    IF c = "\\" THEN 2
    ELSE IF c = "[" /\ ClassClose(re, i) # 0 THEN ClassClose(re, i) - i + 1
    ELSE IF c = "(" /\ ParenEnd(re, i + 1, 1) # 0 THEN ParenEnd(re, i + 1, 1) - i + 1
    ELSE 1

RECURSIVE NextBar(_, _, _)
\* First top-level "|" in re[i..hi], hi + 1 when there is none.
NextBar(re, i, hi) ==
    IF i > hi THEN hi + 1
    ELSE IF Ch(re, i) = "|" THEN i
    ELSE NextBar(re, i + AtomLen(re, i), hi)

ClassHas(re, i, n, c) ==
    LET neg == HasAt(re, i + 1, "^")
        lo  == IF neg THEN i + 2 ELSE i + 1
        in  == \E k \in lo..(i + n - 2) : Ch(re, k) = c
    IN  IF neg THEN ~in ELSE in

RECURSIVE EndsAlt(_, _, _, _, _), EndsCat(_, _, _, _, _), AtomEnds(_, _, _, _, _), StarEnds(_, _, _, _, _)
\* Positions reachable from P by one of the alternatives of re[lo..hi].
EndsAlt(re, lo, hi, s, P) ==
    LET b == NextBar(re, lo, hi) IN
    EndsCat(re, lo, b - 1, s, P) \cup (IF b <= hi THEN EndsAlt(re, b + 1, hi, s, P) ELSE {})

\* Positions reachable from P by the concatenation re[i..hi].
EndsCat(re, i, hi, s, P) ==
    IF i > hi \/ P = {} THEN P
    ELSE LET n    == AtomLen(re, i)
             q    == IF i + n <= hi THEN Ch(re, i + n) ELSE ""
             one  == AtomEnds(re, i, n, s, P)
         IN  IF q = "*" THEN EndsCat(re, i + n + 1, hi, s, StarEnds(re, i, n, s, P))
             ELSE IF q = "+" THEN EndsCat(re, i + n + 1, hi, s, StarEnds(re, i, n, s, one))
             ELSE IF q = "?" THEN EndsCat(re, i + n + 1, hi, s, P \cup one)
             ELSE EndsCat(re, i + n, hi, s, one)

\* Positions reachable from P by matching the atom of n characters at i once.
AtomEnds(re, i, n, s, P) ==
    LET c == Ch(re, i) IN
    IF c = "^" THEN P \cap {0}
    ELSE IF c = "$" THEN P \cap {Len(s)}
    ELSE IF c = "\\" THEN {p + 1 : p \in {x \in P : x < Len(s) /\ Ch(s, x + 1) = Ch(re, i + 1)}}
    ELSE IF c = "." THEN {p + 1 : p \in {x \in P : x < Len(s) /\ Ch(s, x + 1) # "\n"}}
    ELSE IF c = "[" /\ n > 1 THEN {p + 1 : p \in {x \in P : x < Len(s) /\ ClassHas(re, i, n, Ch(s, x + 1))}}
    ELSE IF c = "(" /\ n > 1 THEN
        EndsAlt(re, IF HasAt(re, i + 1, "?:") THEN i + 3 ELSE i + 1, i + n - 2, s, P)
    ELSE {p + 1 : p \in {x \in P : x < Len(s) /\ Ch(s, x + 1) = c}}

\* Positions reachable from P by matching the atom at i zero or more times.
StarEnds(re, i, n, s, P) ==
    LET Q == P \cup AtomEnds(re, i, n, s, P) IN
    IF Q = P THEN P ELSE StarEnds(re, i, n, s, Q)

\* Regexp.MatchString: the expression matches somewhere in s.
MatchString(re, s) == EndsAlt(re, 1, Len(re), s, 0..Len(s)) # {}

\* regexp.Compile succeeds: every class and group is closed, no group is closed
\* twice, no escape is cut short and every repetition has something to repeat.
RECURSIVE CompilesFrom(_, _, _, _)
CompilesFrom(re, i, hi, first) ==
    IF i > hi THEN TRUE
    ELSE LET c == Ch(re, i)
             n == AtomLen(re, i)
         IN  IF c = "|" THEN CompilesFrom(re, i + 1, hi, TRUE)
             ELSE IF c \in {"*", "+", "?"} THEN ~first /\ CompilesFrom(re, i + 1, hi, FALSE)
             ELSE IF c = "\\" THEN i + 1 <= hi /\ CompilesFrom(re, i + 2, hi, FALSE)
             ELSE IF c = "[" THEN n > 1 /\ CompilesFrom(re, i + n, hi, FALSE)
             ELSE IF c = ")" THEN FALSE
             ELSE IF c = "(" THEN
                 /\ n > 1
                 /\ CompilesFrom(re, IF HasAt(re, i + 1, "?:") THEN i + 3 ELSE i + 1, i + n - 2, TRUE)
                 /\ CompilesFrom(re, i + n, hi, FALSE)
             ELSE CompilesFrom(re, i + 1, hi, c \in {"^", "$"} /\ first)

Compiles(re) == CompilesFrom(re, 1, Len(re), TRUE)

(***************************************************************************)
(* package match: the result values and the RE2 pattern set.               *)
(***************************************************************************)
Nil == "nil"

\* A MatchInfo value: the dialect result types (kind = their Type()) and the
\* dummyMatch value NoMatch; NilInfo is the nil interface value.
NoMatch == [kind |-> "unknown", src |-> ""]

NilInfo == [kind |-> Nil, src |-> ""]

Result(kind, src) == [kind |-> kind, src |-> src]

\* MatchInfo.Ok(): result.Ok() is src != "", dummyMatch.Ok() is false.
Ok(info) == IF info.kind = "unknown" THEN FALSE ELSE info.src # ""

Src(info) == info.src

Type(info) == info.kind

\* The nil *RE2Set (a set that was built holds at least one pattern).
NilSet == [src |-> <<>>]

\* NewRE2Set: the set, or nil with an error for an empty or malformed list.
NewRE2Set(patterns) ==
    IF Len(patterns) = 0 THEN [set |-> NilSet, err |-> "empty input patterns"]
    ELSE IF \E k \in 1..Len(patterns) : ~Compiles(patterns[k]) THEN [set |-> NilSet, err |-> "compile"]
    ELSE [set |-> [src |-> patterns], err |-> Nil]

\* RE2Set.Matches: FindAllString(path, 1) yields at most one index of a
\* matching pattern; which one, when several match, is left to the engine.
Matches(s, path) ==
    LET hit == {k \in 1..Len(s.src) : MatchString(s.src[k], path)} IN
    IF hit = {} THEN {[ok |-> FALSE, src |-> ""]}
    ELSE {[ok |-> TRUE, src |-> s.src[k]] : k \in hit}

(***************************************************************************)
(* package gitignore: the line translator.                                 *)
(***************************************************************************)
\* gitEscapedFirstChar = ^([#!])
gitEscapedFirstChar(l) == Len(l) > 0 /\ Ch(l, 1) \in {"#", "!"}

\* gitDirFileEscape = ([^/+])/.*\*\.
gitDirFileEscape(l) ==
    \E i \in 1..Len(l) :
        /\ Ch(l, i) \notin {"/", "+"}
        /\ HasAt(l, i + 1, "/")
        /\ \E j \in (i + 2)..Len(l) : HasAt(l, j, "*.")

RECURSIVE QuestionFrom(_, _)
QuestionFrom(l, i) ==
    IF i > Len(l) THEN ""
    ELSE IF i = 1 /\ Ch(l, 1) = "?" THEN "[^/]" \o QuestionFrom(l, 2)
    ELSE IF Ch(l, i) # "\\" /\ HasAt(l, i + 1, "?") THEN Ch(l, i) \o "[^/]" \o QuestionFrom(l, i + 2)
    ELSE Ch(l, i) \o QuestionFrom(l, i + 1)

\* gitQuestionMark.ReplaceAllString(l, `$1[^/]`), gitQuestionMark = (^|[^\\])\?
gitQuestionMark(l) == QuestionFrom(l, 1)

placeholder == "#$~"

\* A translator that keeps the trimmed line as the rule's source.
RuleSrcTrimmed(input, l) == l

\* The rule source kept for a line: the line as given.
RuleSrc(input, l) == input

\* Whether a trimmed line is a negation, and the line without its mark.
IsNegate(l) == Ch(l, 1) = "!"

StripNegate(l) == IF IsNegate(l) THEN SubSeq(l, 2, Len(l)) ELSE l

\* "Handle [Rule 2, 4]": a leading # or ! is dropped.
StripFirstChar(l) == IF gitEscapedFirstChar(l) THEN SubSeq(l, 2, Len(l)) ELSE l

\* "If we encounter a foo/*.blah in a folder, prepend the / char".
PrependSlash(l) == IF gitDirFileEscape(l) /\ Ch(l, 1) # "/" THEN "/" \o l ELSE l

\* "Handle /**/ usage": a leading /**/ loses its first slash.
StripLeadingSlash(l) == IF HasPrefix(l, "/**/") THEN SubSeq(l, 2, Len(l)) ELSE l

\* A translation of /**/ that asks for at least one directory in between.
DoubleAsterisksNeedDir(l) ==
    ReplaceAll(ReplaceAll(ReplaceAll(l, "/**/", "/.+/"),
                          "**/", "(?:|." \o placeholder \o "/)"),
               "/**", "/." \o placeholder)

\* The three ** forms, by position.
DoubleAsterisks(l) ==
    ReplaceAll(ReplaceAll(ReplaceAll(l, "/**/", "(?:/|/.+/)"),
                          "**/", "(?:|." \o placeholder \o "/)"),
               "/**", "/." \o placeholder)

\* The remaining asterisks, then the placeholder back to "*".
Asterisks(l) ==
    ReplaceAll(ReplaceAll(ReplaceAll(l, "\\*", "\\" \o placeholder), "*", "[^/]*"),
               placeholder, "*")

\* The body of parse from the range negation to the last replacement.
Translate(l) ==
    Asterisks(DoubleAsterisks(gitQuestionMark(StripLeadingSlash(
        ReplaceAll(PrependSlash(StripFirstChar(ReplaceAll(l, "[!", "[^"))), ".", "\\.")))))

\* The end of the expression for the translated line l.
AnchorEnd(l, hasfwSlashSuffix) ==
    IF hasfwSlashSuffix THEN l \o "(?:|.*)$" ELSE l \o "(?:|/.*)$"

\* An anchoring that lets every pattern match at any depth.
AnchorAnyDepth(l, hasfwSlashSuffix, hasFwSlash) ==
    "^(?:|.*/)" \o (IF HasPrefix(l, "/")
                    THEN SubSeq(AnchorEnd(l, hasfwSlashSuffix), 2, Len(AnchorEnd(l, hasfwSlashSuffix)))
                    ELSE AnchorEnd(l, hasfwSlashSuffix))

\* The anchoring of the translated line l (its end, then its start).
Anchor(l, hasfwSlashSuffix, hasFwSlash) ==
    IF hasFwSlash
    THEN "^(?:|/)" \o (IF HasPrefix(l, "/")
                       THEN SubSeq(AnchorEnd(l, hasfwSlashSuffix), 2, Len(AnchorEnd(l, hasfwSlashSuffix)))
                       ELSE AnchorEnd(l, hasfwSlashSuffix))
    ELSE "^(?:|.*/)" \o AnchorEnd(l, hasfwSlashSuffix)

\* The nil *parseOut: the line yields no rule.
NilParseOut == [nil |-> TRUE, rule |-> [src |-> "", rePat |-> ""], negate |-> FALSE]

\* parse, for the trimmed and non-empty line l of input.
parseLine(input, l) ==
    [nil |-> FALSE,
     rule |-> [src |-> RuleSrc(input, l),
               rePat |-> Anchor(Translate(StripNegate(l)), HasSuffix(l, "/"),
                                Contains(SubSeq(l, 1, Len(l) - 1), "/"))],
     negate |-> IsNegate(l)]

\* parse, after the carriage returns are trimmed off (l).
parseTrimmed(input, l) ==
    IF HasPrefix(l, "#") THEN NilParseOut
    ELSE IF Trim(l, " ") = "" THEN NilParseOut
    ELSE parseLine(input, Trim(l, " "))

\* Matcher.parse: nil for a comment or a blank line, else the rule and its sign.
parse(input) == parseTrimmed(input, TrimRight(input, "\r"))

(***************************************************************************)
(* package gitignore: construction.                                        *)
(***************************************************************************)
\* The nil *Matcher a failed construction returns.
NilGitMatcher ==
    [nil |-> TRUE, src |-> <<>>, posRules |-> <<>>, negRules |-> <<>>,
     posSet |-> NilSet, negSet |-> NilSet]

RePats(rules) == [k \in 1..Len(rules) |-> rules[k].rePat]

RECURSIVE AddRules(_, _, _, _), AddRule(_, _, _, _, _)
\* The loop of newMatcher over opts.Patterns, from pattern k on.
AddRules(m, patterns, k, parallel) ==
    IF k > Len(patterns) THEN [matcher |-> m, err |-> Nil]
    ELSE AddRule(m, patterns, k, parallel, parse(patterns[k]))

\* One turn of that loop, res being what parse returned for pattern k.
AddRule(m, patterns, k, parallel, res) ==
    IF res.nil THEN AddRules(m, patterns, k + 1, parallel)
    ELSE IF ~parallel /\ ~Compiles(res.rule.rePat)
         THEN [matcher |-> NilGitMatcher, err |-> "compile pattern"]
    ELSE AddRules(IF res.negate THEN [m EXCEPT !.negRules = Append(@, res.rule)]
                                ELSE [m EXCEPT !.posRules = Append(@, res.rule)],
                  patterns, k + 1, parallel)

\* The matcher with the pattern sets pos and neg (as NewRE2Set returned them).
WithSets(m, pos, neg) ==
    IF pos.err # Nil THEN [matcher |-> NilGitMatcher, err |-> "parallel: re2 set"]
    ELSE IF Len(m.negRules) > 0 /\ neg.err # Nil
         THEN [matcher |-> NilGitMatcher, err |-> "parallel: negation re2 set"]
    ELSE [matcher |-> [m EXCEPT !.posSet = pos.set, !.negSet = neg.set], err |-> Nil]

\* The pattern sets of a parallel matcher; negSet stays nil without negRules.
AddSets(m) == WithSets(m, NewRE2Set(RePats(m.posRules)), NewRE2Set(RePats(m.negRules)))

\* newMatcher after its loop: looped is what the loop left.
Finish(looped, parallel) ==
    IF looped.err = Nil /\ parallel THEN AddSets(looped.matcher) ELSE looped

\* gitignore.newMatcher; opts.FilePath is "" (no file is read here).
newGitMatcher(opts, parallel) ==
    IF Len(opts.Patterns) = 0 /\ opts.FilePath = ""
    THEN [matcher |-> NilGitMatcher, err |-> "atleast one gitignore source required"]
    ELSE Finish(AddRules([NilGitMatcher EXCEPT !.nil = FALSE, !.src = opts.Patterns],
                         opts.Patterns, 1, parallel), parallel)

(***************************************************************************)
(* A Match or Match2 call on a matcher: the frame of the call.  pc is the  *)
(* place of the next context check ("pos", "neg": the rule loops at rule   *)
(* i; "posSet", "negSet": the pattern-set branches), "done" once the call  *)
(* has returned (res, err), "panic" once it has crashed.  ok is what Match *)
(* returns beside err.                                                     *)
(***************************************************************************)
\* No earlier call to compare with.
NoPrev == [set |-> FALSE, ok |-> FALSE, err |-> Nil]

Idle ==
    [api |-> "", pc |-> "idle", i |-> 0, path |-> "", res |-> NilInfo, err |-> Nil,
     ok |-> FALSE, ctx0 |-> Nil, top |-> "", m |-> 0, prev |-> NoPrev]

PathSeparator == "/"

\* Match2 returns (res, err); Match returns (res.Ok(), err), and calling Ok()
\* on the nil interface value panics.
Return(f, res, err) ==
    IF f.api = "Match" /\ res = NilInfo
    THEN [f EXCEPT !.pc = "panic", !.res = res, !.err = err]
    ELSE [f EXCEPT !.pc = "done", !.res = res, !.err = err,
                   !.ok = IF f.api = "Match" THEN Ok(res) ELSE FALSE]

(***************************************************************************)
(* gitignore.Matcher.Match2, one context check at a time.  cerr is what    *)
(* ctx.Err() returns at that check.                                        *)
(***************************************************************************)
\* The frame at the first context check of a call.
GitEnter(m, api, path, cerr) ==
    [Idle EXCEPT !.api = api, !.ctx0 = cerr, !.i = 1,
                 !.path = ReplaceAll(path, PathSeparator, "/"),
                 !.res = Result("gitignore", ""),
                 !.pc = IF m.posSet # NilSet THEN "posSet" ELSE "pos"]

\* After the positive pass found matchPath.
GitAfterPos(m, f, matchPath) ==
    IF matchPath = "" THEN Return(f, f.res, Nil)
    ELSE [f EXCEPT !.res = Result("gitignore", matchPath), !.i = 1,
                   !.pc = IF m.negSet # NilSet THEN "negSet" ELSE "neg"]

\* The source a positive rule reports.
PosSrc(r) == r.src

\* One turn of the loop over posRules.
GitPosLoop(m, f, cerr) ==
    IF f.i > Len(m.posRules) THEN GitAfterPos(m, f, "")
    ELSE IF cerr # Nil THEN Return(f, f.res, cerr)
    ELSE IF MatchString(m.posRules[f.i].rePat, f.path) THEN GitAfterPos(m, f, PosSrc(m.posRules[f.i]))
    ELSE [f EXCEPT !.i = f.i + 1]

\* A negative pass that leaves the positive match standing.
NegHitIgnored(res) == res

\* The result when a negative rule matches.
NegHit(res) == [res EXCEPT !.src = ""]

\* One turn of the loop over negRules.
GitNegLoop(m, f, cerr) ==
    IF f.i > Len(m.negRules) THEN Return(f, f.res, Nil)
    ELSE IF cerr # Nil THEN Return(f, f.res, cerr)
    ELSE IF MatchString(m.negRules[f.i].rePat, f.path) THEN Return(f, NegHit(f.res), Nil)
    ELSE [f EXCEPT !.i = f.i + 1]

\* The posSet branch.
GitPosSet(m, f, cerr) ==
    IF cerr # Nil THEN {Return(f, f.res, cerr)}
    ELSE {GitAfterPos(m, f, hit.src) : hit \in Matches(m.posSet, f.path)}

\* The negSet branch.
GitNegSet(m, f, cerr) ==
    IF cerr # Nil THEN {Return(f, f.res, cerr)}
    ELSE {Return(f, IF hit.ok THEN [f.res EXCEPT !.src = hit.src] ELSE f.res, Nil) :
            hit \in Matches(m.negSet, f.path)}

\* The frames one more stretch of Match2 can lead to.
GitStep(m, f, cerr) ==
    CASE f.pc = "pos"    -> {GitPosLoop(m, f, cerr)}
      [] f.pc = "neg"    -> {GitNegLoop(m, f, cerr)}
      [] f.pc = "posSet" -> GitPosSet(m, f, cerr)
      [] f.pc = "negSet" -> GitNegSet(m, f, cerr)

Running(f) == f.pc \notin {"idle", "done", "panic"}

(***************************************************************************)
(* package regex.                                                          *)
(***************************************************************************)
RegexSpecials == {"\\", ".", "+", "*", "?", "(", ")", "|", "[", "]", "{", "}", "^", "$"}

RECURSIVE RegexQuoteFrom(_, _)
RegexQuoteFrom(p, i) ==
    IF i > Len(p) THEN ""
    ELSE (IF Ch(p, i) \in RegexSpecials THEN "\\" ELSE "") \o Ch(p, i) \o RegexQuoteFrom(p, i + 1)

\* regexp.QuoteMeta
RegexQuoteMeta(p) == RegexQuoteFrom(p, 1)

quotePatterns(patterns) == [k \in 1..Len(patterns) |-> RegexQuoteMeta(patterns[k])]

RECURSIVE Join(_, _)
\* strings.Join
Join(elems, sep) ==
    IF Len(elems) = 0 THEN ""
    ELSE IF Len(elems) = 1 THEN elems[1]
    ELSE elems[1] \o sep \o Join(Tail(elems), sep)

\* The nil *Matcher of package regex.
NilRegexMatcher == [nil |-> TRUE, regexps |-> <<>>, set |-> NilSet]

\* opts.Patterns after the Literals rewrite.
RegexPatterns(opts) ==
    IF opts.Literals THEN <<Join(quotePatterns(opts.Patterns), "|")>> ELSE opts.Patterns

\* The Parallel branch of NewMatcher, given what NewRE2Set returned.
RegexWithSet(r) ==
    IF r.err # Nil THEN [matcher |-> NilRegexMatcher, err |-> "patterns compilation"]
    ELSE [matcher |-> [nil |-> FALSE, regexps |-> <<>>, set |-> r.set], err |-> Nil]

\* The loop of NewMatcher over the patterns.
RegexCompileAll(patterns) ==
    IF \E k \in 1..Len(patterns) : ~Compiles(patterns[k])
    THEN [matcher |-> NilRegexMatcher, err |-> "pattern compilation"]
    ELSE [matcher |-> [nil |-> FALSE, regexps |-> patterns, set |-> NilSet], err |-> Nil]

\* regex.NewMatcher
NewRegexMatcher(opts) ==
    IF Len(opts.Patterns) = 0
    THEN [matcher |-> NilRegexMatcher, err |-> "atleast one pattern required for regex matcher"]
    ELSE IF opts.Parallel THEN RegexWithSet(NewRE2Set(RegexPatterns(opts)))
    ELSE RegexCompileAll(RegexPatterns(opts))

\* regex.NewParallelMatcher: the matcher holds the pattern set.
NewParallelRegexMatcher(opts) == NewRegexMatcher([opts EXCEPT !.Parallel = TRUE])

\* regex.Matcher.Match2 up to its first context check.
RegexEnter(m, api, path, cerr) ==
    IF cerr # Nil
    THEN Return([Idle EXCEPT !.api = api, !.ctx0 = cerr, !.path = path], Result("regex", ""), cerr)
    ELSE [Idle EXCEPT !.api = api, !.ctx0 = cerr, !.path = path, !.i = 1,
                      !.res = Result("regex", ""),
                      !.pc = IF m.set # NilSet THEN "reSet" ELSE "regexps"]

\* The set branch: res.src is the pattern the set reports.
RegexSet(m, f) ==
    {Return(f, IF hit.ok THEN Result("regex", hit.src) ELSE f.res, Nil) :
        hit \in Matches(m.set, f.path)}

\* One turn of the loop over m.regexps.
RegexLoop(m, f, cerr) ==
    IF f.i > Len(m.regexps) THEN Return(f, f.res, Nil)
    ELSE IF cerr # Nil THEN Return(f, f.res, cerr)
    ELSE IF MatchString(m.regexps[f.i], f.path) THEN Return(f, Result("regex", f.path), Nil)
    ELSE [f EXCEPT !.i = f.i + 1]

(***************************************************************************)
(* package glob.  The glob engine (gobwas/glob, compiled without           *)
(* separators) for literals, \c, ? and *; classes and {..} are not used by *)
(* the patterns here, and an unclosed one does not compile.                *)
(***************************************************************************)
RECURSIVE GlobEnds(_, _, _, _)
\* Positions of s reachable from P by the glob g from its i-th character on.
GlobEnds(g, i, s, P) ==
    IF i > Len(g) \/ P = {} THEN P
    ELSE IF Ch(g, i) = "*" THEN
        GlobEnds(g, i + 1, s, {q \in 0..Len(s) : \E x \in P : x <= q})
    ELSE IF Ch(g, i) = "?" THEN
        GlobEnds(g, i + 1, s, {x + 1 : x \in {y \in P : y < Len(s)}})
    ELSE IF Ch(g, i) = "\\" THEN
        GlobEnds(g, i + 2, s, {x + 1 : x \in {y \in P : y < Len(s) /\ Ch(s, y + 1) = Ch(g, i + 1)}})
    ELSE GlobEnds(g, i + 1, s, {x + 1 : x \in {y \in P : y < Len(s) /\ Ch(s, y + 1) = Ch(g, i)}})

\* Glob.Match: the glob matches the whole of s.
GlobMatch(g, s) == Len(s) \in GlobEnds(g, 1, s, {0})

RECURSIVE GlobCompilesFrom(_, _)
GlobCompilesFrom(p, i) ==
    IF i > Len(p) THEN TRUE
    ELSE IF Ch(p, i) = "\\" THEN i + 1 <= Len(p) /\ GlobCompilesFrom(p, i + 2)
    ELSE IF Ch(p, i) \in {"[", "]", "{", "}"} THEN FALSE
    ELSE GlobCompilesFrom(p, i + 1)

\* glob.Compile succeeds.
GlobCompiles(p) == GlobCompilesFrom(p, 1)

GlobSpecials == {"*", "?", "\\", "[", "]", "{", "}"}

RECURSIVE QuoteFrom(_, _)
QuoteFrom(p, i) ==
    IF i > Len(p) THEN ""
    ELSE (IF Ch(p, i) \in GlobSpecials THEN "\\" ELSE "") \o Ch(p, i) \o QuoteFrom(p, i + 1)

\* glob.QuoteMeta: every special character gets a backslash.
QuoteMeta(p) == QuoteFrom(p, 1)

\* The nil *Matcher of package glob.
NilGlobMatcher == [nil |-> TRUE, globs |-> <<>>, parallel |-> FALSE]

\* The expressions newStrictMatcher compiles, in order, and the texts they came from.
GlobExprs(opts) ==
    opts.Patterns \o [k \in 1..Len(opts.RawPatterns) |-> QuoteMeta(opts.RawPatterns[k])]

GlobTexts(opts) == opts.Patterns \o opts.RawPatterns

RECURSIVE StrictCompileSkipping(_, _, _, _, _)
\* A strict constructor that passes over a pattern that does not compile.
StrictCompileSkipping(exprs, texts, k, globs, llel) ==
    IF k > Len(exprs)
    THEN [matcher |-> [nil |-> FALSE, globs |-> globs, parallel |-> llel], err |-> Nil]
    ELSE StrictCompileSkipping(exprs, texts, k + 1,
             IF GlobCompiles(exprs[k]) THEN Append(globs, exprs[k]) ELSE globs, llel)

RECURSIVE StrictCompile(_, _, _, _, _)
\* The loops of newStrictMatcher from expression k on: a pattern that does not
\* compile ends them with newCompileError(p, err), kept here as its Path p.
StrictCompile(exprs, texts, k, globs, llel) ==
    IF k > Len(exprs)
    THEN [matcher |-> [nil |-> FALSE, globs |-> globs, parallel |-> llel], err |-> Nil]
    ELSE IF ~GlobCompiles(exprs[k]) THEN [matcher |-> NilGlobMatcher, err |-> texts[k]]
    ELSE StrictCompile(exprs, texts, k + 1, Append(globs, exprs[k]), llel)

\* glob.newStrictMatcher
newStrictMatcher(opts, llel) ==
    StrictCompile(GlobExprs(opts), GlobTexts(opts), 1, <<>>, llel)

RECURSIVE LenientCompileStopping(_, _, _, _, _)
\* A lenient constructor that stops at the first pattern that does not compile.
LenientCompileStopping(exprs, texts, k, globs, errs) ==
    IF k > Len(exprs) \/ errs # <<>>
    THEN [matcher |-> [nil |-> FALSE, globs |-> globs, parallel |-> FALSE],
          err |-> Nil, errs |-> errs]
    ELSE IF ~GlobCompiles(exprs[k])
         THEN LenientCompileStopping(exprs, texts, k + 1, globs, Append(errs, texts[k]))
    ELSE LenientCompileStopping(exprs, texts, k + 1, Append(globs, exprs[k]), errs)

RECURSIVE LenientCompile(_, _, _, _, _)
\* The loops of NewMatcher from expression k on: errs collects the
\* CompileErrors (each kept as its Path), globs what compiled.
LenientCompile(exprs, texts, k, globs, errs) ==
    IF k > Len(exprs)
    THEN [matcher |-> [nil |-> FALSE, globs |-> globs, parallel |-> FALSE],
          err |-> Nil, errs |-> errs]
    ELSE IF ~GlobCompiles(exprs[k])
         THEN LenientCompile(exprs, texts, k + 1, globs, Append(errs, texts[k]))
    ELSE LenientCompile(exprs, texts, k + 1, Append(globs, exprs[k]), errs)

\* glob.NewMatcher
NewGlobMatcher(opts) == LenientCompile(GlobExprs(opts), GlobTexts(opts), 1, <<>>, <<>>)

(***************************************************************************)
(* glob.Matcher.Match2.  Sequential: pc "globs" is the loop at glob i.     *)
(* Concurrent (concurrentMatch): pc "spawn" is the wg.Go loop at glob i,   *)
(* "closer" the go statement after it, "select" the final select.          *)
(***************************************************************************)
\* The frame after the context check that opens Match2.
GlobEnter(m, api, path, cerr) ==
    IF cerr # Nil
    THEN Return([Idle EXCEPT !.api = api, !.ctx0 = cerr, !.path = path], NoMatch, cerr)
    ELSE [Idle EXCEPT !.api = api, !.ctx0 = cerr, !.path = path, !.i = 1,
                      !.res = Result("glob", ""),
                      !.pc = IF m.parallel THEN "spawn" ELSE "globs"]

\* A turn of the loop that tests the glob before it looks at the context.
GlobLoopTestingFirst(m, f, cerr) ==
    IF f.i > Len(m.globs) THEN Return(f, f.res, Nil)
    ELSE IF GlobMatch(m.globs[f.i], f.path) THEN Return(f, Result("glob", f.path), Nil)
    ELSE IF cerr # Nil THEN Return(f, f.res, cerr)
    ELSE [f EXCEPT !.i = f.i + 1]

\* One turn of the sequential loop: the select on ctx.Done(), then the test.
GlobLoop(m, f, cerr) ==
    IF f.i > Len(m.globs) THEN Return(f, f.res, Nil)
    ELSE IF cerr # Nil THEN Return(f, f.res, cerr)
    ELSE IF GlobMatch(m.globs[f.i], f.path) THEN Return(f, Result("glob", f.path), Nil)
    ELSE [f EXCEPT !.i = f.i + 1]

(***************************************************************************)
(* package gopathignore.  A PathIgnore holds its dialect matchers in the   *)
(* order New appended them; a call on it runs each matcher's Match2 as a   *)
(* frame of api "sub" whose top is the PathIgnore method called.  The      *)
(* context the matchers see is matchCtx = WithTimeout(ctx, timeout): it is *)
(* done when ctx is done or the timeout fires.                             *)
(***************************************************************************)
NilPathIgnore == [nil |-> TRUE, matchers |-> <<>>, timeout |-> 0]

\* One constructor call of New: the dialect's tag and what came back.
Dialect(type, r) == [type |-> type, m |-> r.matcher, err |-> r.err]

NewRegex(opts) ==
    IF ~opts.Regex.set THEN <<>>
    ELSE <<Dialect("regex", IF opts.Parallel THEN NewParallelRegexMatcher(opts.Regex.opts)
                            ELSE NewRegexMatcher(opts.Regex.opts))>>

NewGitIgnore(opts) ==
    IF ~opts.GitIgnore.set THEN <<>>
    ELSE <<Dialect("gitignore", newGitMatcher(opts.GitIgnore.opts, opts.Parallel))>>

NewGlob(opts) ==
    IF ~opts.Glob.set THEN <<>>
    ELSE <<Dialect("glob", newStrictMatcher(opts.Glob.opts, opts.Parallel))>>

\* Glob appended before GitIgnore.
DialectsGlobSecond(opts) == NewRegex(opts) \o NewGlob(opts) \o NewGitIgnore(opts)

\* The constructors New calls, in the order it calls them.
Dialects(opts) == NewRegex(opts) \o NewGitIgnore(opts) \o NewGlob(opts)

\* The matchers of the constructor calls that succeeded.
Built(ds) == SelectSeq(ds, LAMBDA d : d.err = Nil)

\* A New that leaves out a dialect whose constructor failed.
NewFromSkippingFailed(ds, timeout) ==
    IF ds = <<>>
    THEN [matcher |-> NilPathIgnore, err |-> "atleast one matching strategy required"]
    ELSE [matcher |-> [nil |-> FALSE,
                       matchers |-> [k \in 1..Len(Built(ds)) |->
                                        [type |-> Built(ds)[k].type, m |-> Built(ds)[k].m]],
                       timeout |-> timeout],
          err |-> Nil]

\* New, given the constructor calls: the first failure fails it.
NewFrom(ds, timeout) ==
    IF ds = <<>>
    THEN [matcher |-> NilPathIgnore, err |-> "atleast one matching strategy required"]
    ELSE IF \E k \in 1..Len(ds) : ds[k].err # Nil
    THEN [matcher |-> NilPathIgnore,
          err |-> ds[CHOOSE k \in 1..Len(ds) :
                        ds[k].err # Nil /\ \A j \in 1..(k - 1) : ds[j].err = Nil].type]
    ELSE [matcher |-> [nil |-> FALSE,
                       matchers |-> [k \in 1..Len(ds) |-> [type |-> ds[k].type, m |-> ds[k].m]],
                       timeout |-> timeout],
          err |-> Nil]

\* gopathignore.New
New(opts) == NewFrom(Dialects(opts), opts.Timeout)

\* matcher.Match2(matchCtx, path) up to the matcher's first context check.
Enter(tm, path, cerr) ==
    CASE tm.type = "regex"     -> RegexEnter(tm.m, "sub", path, cerr)
      [] tm.type = "gitignore" -> GitEnter(tm.m, "sub", path, cerr)
      [] tm.type = "glob"      -> GlobEnter(tm.m, "sub", path, cerr)

\* A Match2 that reports running out of matchers as an error.
PIReturnNoMatchAsError(f, res, err) ==
    Return([f EXCEPT !.api = f.top], res, IF res = NoMatch THEN "no match" ELSE err)

\* PathIgnore.Match2 returns (res, err) to the method that was called.
PIReturn(f, res, err) == Return([f EXCEPT !.api = f.top], res, err)

\* The error branch of the loop: return nil, err.
PIError(g) == PIReturn(g, NilInfo, g.err)

\* A loop body that goes on to the next matcher when one returned an error.
PIAfterTryingNextOnError(g) ==
    IF g.err = Nil /\ Ok(g.res) THEN PIReturn(g, g.res, Nil)
    ELSE [g EXCEPT !.pc = "next", !.m = g.m + 1]

\* The loop body once matcher g.m has returned (g.res, g.err); pc "next" is
\* the head of the loop, about to call matcher m.
PIAfter(g) ==
    IF g.err # Nil THEN PIError(g)
    ELSE IF Ok(g.res) THEN PIReturn(g, g.res, Nil)
    ELSE [g EXCEPT !.pc = "next", !.m = g.m + 1]

\* A matcher's frame, followed up when the matcher has returned.
PISettle(g) == IF g.pc = "done" THEN PIAfter(g) ELSE g

\* The head of the loop at matcher k; past the last one: return match.NoMatch, nil.
PINext(pi, f, k, cerr) ==
    IF k > Len(pi.matchers) THEN PIReturn(f, NoMatch, Nil)
    ELSE PISettle([Enter(pi.matchers[k], f.path, cerr)
                      EXCEPT !.top = f.top, !.m = k, !.ctx0 = f.ctx0])

\* PathIgnore.Match (api "Match") or Match2 called with ctx.Err() = cerr.
PIEnter(pi, api, path, cerr) ==
    PINext(pi, [Idle EXCEPT !.top = api, !.path = path, !.ctx0 = cerr], 1, cerr)

\* The frames one more stretch of a sequential Match2 can lead to.
Step(m, f, cerr) ==
    CASE f.pc \in {"pos", "neg", "posSet", "negSet"} -> GitStep(m, f, cerr)
      [] f.pc = "regexps" -> {RegexLoop(m, f, cerr)}
      [] f.pc = "reSet"   -> RegexSet(m, f)
      [] f.pc = "globs"   -> {GlobLoop(m, f, cerr)}

\* The matcher whose Match2 the frame is in.
Callee(b, f) == IF f.top = "" THEN b.matcher ELSE b.matcher.matchers[f.m].m

\* A frame as its caller sees it: a matcher called by PathIgnore returns
\* into the loop of PathIgnore.Match2.
Deliver(g) == IF g.api = "sub" THEN PISettle(g) ELSE g

\* The state of the race before concurrentMatch is entered.
NoRace ==
    /\ tasks = <<>>
    /\ closer = "none"
    /\ foundSrc = [buf |-> <<>>, closed |-> FALSE]
    /\ stopped = FALSE

\* matchCtx, the child of ctx: done once stopMatch() ran or ctx is done.
MatchCtxDone == stopped \/ ctxErr # Nil

\* wg.Go(func() {...}) for glob i: the task exists and has not run yet.
Spawn ==
    /\ frame.pc = "spawn"
    /\ frame.i <= Len(Callee(built, frame).globs)
    /\ tasks' = Append(tasks, "start")
    /\ frame' = [frame EXCEPT !.i = frame.i + 1]
    /\ UNCHANGED <<config, built, ctxErr, closer, foundSrc, stopped>>

\* go func() { wg.Wait(); close(foundSrc) }()
SpawnCloser ==
    /\ frame.pc = "spawn"
    /\ frame.i > Len(Callee(built, frame).globs)
    /\ closer' = "wait"
    /\ frame' = [frame EXCEPT !.pc = "select"]
    /\ UNCHANGED <<config, built, ctxErr, tasks, foundSrc, stopped>>

\* What Match2 makes of concurrentMatch's (p, nil): res.src = p.
GlobFound(f, p) == Return(f, Result("glob", p), Nil)

\* What concurrentMatch returns when matchCtx is done first: ("", nil).
GlobDone(f) == Return(f, Result("glob", ""), Nil)

\* The caller's select, case p := <-foundSrc (a value, or "" from the closed
\* channel); the deferred stopMatch() runs as the call returns.
CallerReceive ==
    /\ frame.pc = "select"
    /\ foundSrc.buf # <<>> \/ foundSrc.closed
    /\ frame' = Deliver(GlobFound(frame, IF foundSrc.buf # <<>> THEN Head(foundSrc.buf) ELSE ""))
    /\ foundSrc' = [foundSrc EXCEPT !.buf = <<>>]
    /\ stopped' = TRUE
    /\ UNCHANGED <<config, built, ctxErr, tasks, closer>>

\* The caller's select, case <-matchCtx.Done().
CallerDone ==
    /\ frame.pc = "select"
    /\ MatchCtxDone
    /\ frame' = Deliver(GlobDone(frame))
    /\ stopped' = TRUE
    /\ UNCHANGED <<config, built, ctxErr, tasks, closer, foundSrc>>

\* A task from its start to its select: it gives up when matchCtx.Err() is
\* set ("skipped") or its glob does not match ("done").
TaskTest(t) ==
    /\ tasks[t] = "start"
    /\ tasks' = [tasks EXCEPT ![t] =
                    IF MatchCtxDone THEN "skipped"
                    ELSE IF GlobMatch(Callee(built, frame).globs[t], frame.path) THEN "select"
                    ELSE "done"]
    /\ UNCHANGED <<config, built, ctxErr, frame, closer, foundSrc, stopped>>

\* A task's select, case foundSrc <- path.
TaskSend(t) ==
    /\ tasks[t] = "select"
    /\ foundSrc.buf = <<>>
    /\ foundSrc' = [foundSrc EXCEPT !.buf = <<frame.path>>]
    /\ tasks' = [tasks EXCEPT ![t] = "stop"]
    /\ UNCHANGED <<config, built, ctxErr, frame, closer, stopped>>

\* A task whose publication is the bare send, with no case <-matchCtx.Done().
TaskWithoutDoneCase(t) == tasks[t] = "select" /\ FALSE /\ UNCHANGED vars

\* A task's select, case <-matchCtx.Done().
TaskGiveUp(t) ==
    /\ tasks[t] = "select"
    /\ MatchCtxDone
    /\ tasks' = [tasks EXCEPT ![t] = "done"]
    /\ UNCHANGED <<config, built, ctxErr, frame, closer, foundSrc, stopped>>

\* stopMatch() after the send; the task ends.
TaskStop(t) ==
    /\ tasks[t] = "stop"
    /\ stopped' = TRUE
    /\ tasks' = [tasks EXCEPT ![t] = "done"]
    /\ UNCHANGED <<config, built, ctxErr, frame, closer, foundSrc>>

TaskOver(t) == tasks[t] \in {"done", "skipped"}

\* A closing task that goes on to close(foundSrc) without waiting for the tasks.
CloserNotWaiting ==
    /\ closer = "wait"
    /\ closer' = "close"
    /\ UNCHANGED <<config, built, ctxErr, frame, tasks, foundSrc, stopped>>

\* wg.Wait() returns once every task is over.
CloserWait ==
    /\ closer = "wait"
    /\ \A t \in 1..Len(tasks) : TaskOver(t)
    /\ closer' = "close"
    /\ UNCHANGED <<config, built, ctxErr, frame, tasks, foundSrc, stopped>>

\* close(foundSrc); the closing task ends.
CloserClose ==
    /\ closer = "close"
    /\ foundSrc' = [foundSrc EXCEPT !.closed = TRUE]
    /\ closer' = "done"
    /\ UNCHANGED <<config, built, ctxErr, frame, tasks, stopped>>

(***************************************************************************)
(* The caller's context: once cancelled or past its deadline it stays so.  *)
(***************************************************************************)
CtxErrors == {"Canceled", "DeadlineExceeded"}

Cancel ==
    /\ ctxErr = Nil
    /\ ctxErr' \in CtxErrors
    /\ UNCHANGED <<config, built, frame, race>>

SeqsUpTo(S, n) == UNION {[1..k -> S] : k \in 0..n}

(***************************************************************************)
(* SpecGit: a gitignore matcher built by NewMatcher or NewParallelMatcher  *)
(* from a list of lines, and one Match or Match2 call on it.               *)
(***************************************************************************)
MaxGitPatterns == 2

GitLines == {"a", "a ", "/a", "*.t", "!a", "!x/a", "#a", " "}

GitPaths == {"", "a", "x/a", "a/b", "b.t", "b"}

GitInit ==
    /\ config \in [opts : [Patterns : SeqsUpTo(GitLines, MaxGitPatterns), FilePath : {""}],
                  parallel : BOOLEAN]
    /\ built = newGitMatcher(config.opts, config.parallel)
    /\ ctxErr = Nil
    /\ frame = Idle
    /\ NoRace

GitCall ==
    /\ frame.pc = "idle"
    /\ ~built.matcher.nil
    /\ \E api \in {"Match", "Match2"}, path \in GitPaths :
          frame' = GitEnter(built.matcher, api, path, ctxErr)
    /\ UNCHANGED <<config, built, ctxErr, race>>

GitRun ==
    /\ Running(frame)
    /\ frame' \in GitStep(built.matcher, frame, ctxErr)
    /\ UNCHANGED <<config, built, ctxErr, race>>

GitNext == GitCall \/ GitRun \/ Cancel

SpecGit == GitInit /\ [][GitNext]_vars

(***************************************************************************)
(* SpecGlob: a glob matcher built by NewStrictMatcher or                   *)
(* NewStrictParallelMatcher, and one Match or Match2 call on it.           *)
(***************************************************************************)
MaxGlobs == 2

GlobPatterns == {"a*", "*.t", "["}

GlobPaths == {"a", "a.t", "b"}

GlobRaw == {<<>>, <<"a*">>, <<"[">>}

\* The constructor the configuration names.
GlobBuild(c) ==
    IF c.lenient THEN NewGlobMatcher(c.opts) ELSE newStrictMatcher(c.opts, c.parallel)

GlobInit ==
    /\ config \in {c \in [opts : [Patterns : SeqsUpTo(GlobPatterns, MaxGlobs), RawPatterns : GlobRaw],
                           parallel : BOOLEAN, lenient : BOOLEAN] : ~(c.parallel /\ c.lenient)}
    /\ built = GlobBuild(config)
    /\ ctxErr = Nil
    /\ frame = Idle
    /\ NoRace

GlobCall ==
    /\ frame.pc = "idle"
    /\ ~built.matcher.nil
    /\ \E api \in {"Match", "Match2"}, path \in GlobPaths :
          frame' = GlobEnter(built.matcher, api, path, ctxErr)
    /\ UNCHANGED <<config, built, ctxErr, race>>

\* A stretch of the sequential loop.
GlobRun ==
    /\ frame.pc = "globs"
    /\ frame' = GlobLoop(built.matcher, frame, ctxErr)
    /\ UNCHANGED <<config, built, ctxErr, race>>

\* The steps of the tasks concurrentMatch started.
Tasks == \E t \in 1..Len(tasks) : TaskTest(t) \/ TaskSend(t) \/ TaskGiveUp(t) \/ TaskStop(t)

Closer == CloserWait \/ CloserClose

\* The steps of the caller inside concurrentMatch.
Caller == Spawn \/ SpawnCloser \/ CallerReceive \/ CallerDone

GlobNext == GlobCall \/ GlobRun \/ Caller \/ Tasks \/ Closer \/ Cancel

SpecGlob == GlobInit /\ [][GlobNext]_vars

\* The matcher is built once more from the same configuration and the same
\* call is made on it, once the first call and all it started are over.
GlobAgain ==
    /\ frame.pc = "done"
    /\ ~frame.prev.set
    /\ \A t \in 1..Len(tasks) : TaskOver(t)
    /\ closer \in {"none", "done"}
    /\ built' = GlobBuild(config)
    /\ frame' = [GlobEnter(built.matcher, frame.api, frame.path, ctxErr)
                    EXCEPT !.prev = [set |-> TRUE,
                                     ok |-> IF frame.api = "Match" THEN frame.ok ELSE Ok(frame.res),
                                     err |-> frame.err]]
    /\ tasks' = <<>>
    /\ closer' = "none"
    /\ foundSrc' = [buf |-> <<>>, closed |-> FALSE]
    /\ stopped' = FALSE
    /\ UNCHANGED <<config, ctxErr>>

GlobNextTwice == GlobNext \/ GlobAgain

\* SpecGlob with a second run of the same call.
SpecGlobTwice == GlobInit /\ [][GlobNextTwice]_vars

\* The scheduler runs every task that can run; the caller is not forced on.
SpecGlobFair == SpecGlob /\ WF_vars(Tasks) /\ WF_vars(Closer)

(***************************************************************************)
(* SpecPI: a PathIgnore built by New from up to three dialect options, and *)
(* one Match or Match2 call on it.                                         *)
(***************************************************************************)
MaxPIPatterns == 1

Unset == [set |-> FALSE, opts |-> <<>>]

PIRegexOptions ==
    {Unset} \cup {[set |-> TRUE, opts |-> [Patterns |-> ps, Parallel |-> FALSE, Literals |-> FALSE]] :
                    ps \in SeqsUpTo({"^a", "b$", "["}, MaxPIPatterns)}

PIGitOptions ==
    {Unset} \cup {[set |-> TRUE, opts |-> [Patterns |-> ps, FilePath |-> ""]] :
                    ps \in SeqsUpTo({"a", "!a"}, MaxPIPatterns)}

PIGlobOptions ==
    {Unset} \cup {[set |-> TRUE, opts |-> [Patterns |-> ps, RawPatterns |-> <<>>]] :
                    ps \in SeqsUpTo({"a*", "*b", "["}, MaxPIPatterns)}

PIPaths == {"a", "ab", "b", ""}

\* Options.Timeout: unset, or some duration.
PITimeouts == {0, 1}

PIInit ==
    /\ config \in [Regex : PIRegexOptions, GitIgnore : PIGitOptions, Glob : PIGlobOptions,
                  Timeout : PITimeouts, Parallel : BOOLEAN]
    /\ built = New(config)
    /\ ctxErr = Nil
    /\ frame = Idle
    /\ NoRace

\* time.Hour, in seconds
Hour == 3600

\* A Match2 that stores the default timeout in the PathIgnore.
PICallStoringTimeout ==
    /\ frame.pc = "idle"
    /\ ~built.matcher.nil
    /\ \E api \in {"Match", "Match2"}, path \in PIPaths :
          frame' = PIEnter(built.matcher, api, path, ctxErr)
    /\ built' = IF built.matcher.timeout = 0 THEN [built EXCEPT !.matcher.timeout = Hour] ELSE built
    /\ UNCHANGED <<config, ctxErr, race>>

PICall ==
    /\ frame.pc = "idle"
    /\ ~built.matcher.nil
    /\ \E api \in {"Match", "Match2"}, path \in PIPaths :
          frame' = PIEnter(built.matcher, api, path, ctxErr)
    /\ UNCHANGED <<config, built, ctxErr, race>>

\* The head of PathIgnore.Match2's loop calls the next matcher.
PILoop ==
    /\ frame.pc = "next"
    /\ frame' = PINext(built.matcher, frame, frame.m, ctxErr)
    /\ UNCHANGED <<config, built, ctxErr, race>>

\* A stretch of the sequential matcher the loop is in.
PIRun ==
    /\ frame.pc \in {"pos", "neg", "posSet", "negSet", "regexps", "reSet", "globs"}
    /\ frame' \in {Deliver(g) : g \in Step(Callee(built, frame), frame, ctxErr)}
    /\ UNCHANGED <<config, built, ctxErr, race>>

PINext2 == PICall \/ PILoop \/ PIRun \/ Caller \/ Tasks \/ Closer \/ Cancel

SpecPI == PIInit /\ [][PINext2]_vars

\* What the call told its caller about the path: Match's boolean, Match2's Ok().
Matched(f) == IF f.api = "Match" THEN f.ok ELSE Ok(f.res)

\* Line k of the list is a rule of the given sign that matches the frame's path.
RuleMatches(out, negate, path) ==
    ~out.nil /\ out.negate = negate /\ MatchString(out.rule.rePat, path)

LineMatches(patterns, k, negate, path) == RuleMatches(parse(patterns[k]), negate, path)

SomeLine(patterns, negate, path) ==
    \E k \in 1..Len(patterns) : LineMatches(patterns, k, negate, path)

SeqDone == frame.pc = "done" /\ ~config.parallel

\* C1: a sequential gitignore matcher, called with a context that stays live,
\* reports the path as ignored iff some positive line matches it and no
\* negated line does, and returns no error.
C1_IgnoredIffPosAndNoNeg ==
    (SeqDone /\ ctxErr = Nil) =>
        /\ frame.err = Nil
        /\ Matched(frame) = (/\ SomeLine(config.opts.Patterns, FALSE, frame.path)
                             /\ ~SomeLine(config.opts.Patterns, TRUE, frame.path))

\* C1 witness: a call returned "not ignored" for a path that a positive line
\* and a negated line both match.
C1_Witness ==
    /\ SeqDone /\ ctxErr = Nil /\ frame.api = "Match" /\ ~frame.ok
    /\ SomeLine(config.opts.Patterns, FALSE, frame.path)
    /\ SomeLine(config.opts.Patterns, TRUE, frame.path)

\* C10: when a sequential gitignore Match2 reports a match, Src() is the line,
\* as it was given, of the first positive line of the list that matches.
C10_SrcIsFirstPositiveLine ==
    (SeqDone /\ frame.api = "Match2" /\ Ok(frame.res)) =>
        \E k \in 1..Len(config.opts.Patterns) :
            /\ LineMatches(config.opts.Patterns, k, FALSE, frame.path)
            /\ \A j \in 1..(k - 1) : ~LineMatches(config.opts.Patterns, j, FALSE, frame.path)
            /\ Src(frame.res) = config.opts.Patterns[k]

\* C10 witness: two positive lines match the path and the reported source is
\* a line that trimming would change.
C10_Witness ==
    /\ SeqDone /\ frame.api = "Match2" /\ Ok(frame.res)
    /\ Cardinality({k \in 1..Len(config.opts.Patterns) :
                      LineMatches(config.opts.Patterns, k, FALSE, frame.path)}) = 2
    /\ Trim(Src(frame.res), " ") # Src(frame.res)

\* C5: a Match2 call entered with a context that is already cancelled returns
\* that context's error.
C5_CancelledCallReturnsCtxErr ==
    (frame.pc = "done" /\ frame.ctx0 # Nil) => frame.err = frame.ctx0

(***************************************************************************)
(* Concurrent glob matching (SpecGlob).                                    *)
(***************************************************************************)
\* The globs of the list that match the path.
GlobHits(globs, path) == {k \in 1..Len(globs) : GlobMatch(globs[k], path)}

ParDone == frame.pc = "done" /\ config.parallel

\* Every task concurrentMatch started, and the task that closes the channel, is over.
NothingRunning == (\A t \in 1..Len(tasks) : TaskOver(t)) /\ closer \in {"none", "done"}

\* C6: a concurrent glob matcher with exactly one glob that matches the path,
\* called with a context that stays live, reports the match with a nil error.
C6_OneMatchingGlobIsFound ==
    (ParDone /\ ctxErr = Nil /\ Cardinality(GlobHits(built.matcher.globs, frame.path)) = 1)
        => (Matched(frame) /\ frame.err = Nil)

C8_CutShortCallReturnsError ==
    (/\ ParDone
     /\ frame.ctx0 = Nil
     /\ ctxErr # Nil
     /\ GlobHits(built.matcher.globs, frame.path) = {}
     /\ \E t \in 1..Len(tasks) : tasks[t] \in {"start", "skipped"})
        => frame.err # Nil

(***************************************************************************)
(* PathIgnore (SpecPI).                                                    *)
(***************************************************************************)
\* The dialect is configured and its matcher reports a match for the path.
RegexSays(path) ==
    /\ config.Regex.set
    /\ \E k \in 1..Len(config.Regex.opts.Patterns) : MatchString(config.Regex.opts.Patterns[k], path)
    /\ config.Parallel \/ path # ""

GitIgnoreSays(path) ==
    /\ config.GitIgnore.set
    /\ SomeLine(config.GitIgnore.opts.Patterns, FALSE, path)
    /\ config.Parallel \/ ~SomeLine(config.GitIgnore.opts.Patterns, TRUE, path)

GlobSays(path) ==
    /\ config.Glob.set
    /\ GlobHits(config.Glob.opts.Patterns, path) # {}
    /\ path # ""

\* The tag of the earliest dialect, in the order Regex, GitIgnore, Glob, that matches.
Earliest(path) ==
    IF RegexSays(path) THEN "regex"
    ELSE IF GitIgnoreSays(path) THEN "gitignore"
    ELSE IF GlobSays(path) THEN "glob"
    ELSE "unknown"

\* PathIgnore.Match2 returned a match.
PIMatched == frame.pc = "done" /\ frame.top = "Match2" /\ frame.err = Nil /\ Ok(frame.res)

\* The concurrent glob matcher is the only dialect that matches.
GlobRaces(path) == config.Parallel /\ Earliest(path) = "glob"

PIExhausted ==
    frame.pc = "done" /\ frame.top = "Match2" /\ frame.m > Len(built.matcher.matchers)

\* C3: when every matcher returned no match and no error, PathIgnore.Match2
\* returns match.NoMatch (not Ok, empty Src, Type Unknown) and a nil error.
C3_ExhaustionIsNoMatchNil ==
    PIExhausted => /\ frame.res = NoMatch
                   /\ ~Ok(frame.res) /\ Src(frame.res) = "" /\ Type(frame.res) = "unknown"
                   /\ frame.err = Nil

\* All three dialects were tried and none matched.
C3_Witness == PIExhausted /\ frame.m = 4

\* C4: PathIgnore.Match called with a context that is already done returns
\* (false, err) with err not nil.
C4_CancelledMatchReturnsError ==
    (frame.top = "Match" /\ frame.ctx0 # Nil /\ frame.pc \in {"done", "panic"})
        => (frame.pc = "done" /\ ~frame.ok /\ frame.err # Nil)

\* C9: PathIgnore.Match returns (Match2's result.Ok(), Match2's error).
C9_MatchAgreesWithMatch2 ==
    (frame.top = "Match" /\ frame.pc \in {"done", "panic"})
        => (frame.pc = "done" /\ frame.ok = Ok(frame.res))

\* PathIgnore.Match2 returned a match of the gitignore matcher built with Parallel.
PIParallelGitMatch == PIMatched /\ config.Parallel /\ Type(frame.res) = "gitignore"

\* C11: for a PathIgnore built with Parallel, a match of the gitignore dialect
\* carries as Src() one of the gitignore lines as the caller wrote them.
C11_ParallelSrcIsRawLine ==
    PIParallelGitMatch =>
        \E k \in 1..Len(config.GitIgnore.opts.Patterns) :
            Src(frame.res) = config.GitIgnore.opts.Patterns[k]

(***************************************************************************)
(* SpecRegex: a regex matcher built by NewMatcher from a pattern list, as  *)
(* a list of expressions or as a pattern set, the patterns taken as        *)
(* expressions or as literals, and one Match or Match2 call on it.         *)
(***************************************************************************)
MaxRegexPatterns == 2

RegexLines == {"", "a", "a.", "b*", "["}

RegexPaths == {"", "a", "ab", "a."}

RegexInit ==
    /\ config \in [Patterns : SeqsUpTo(RegexLines, MaxRegexPatterns),
                  Parallel : BOOLEAN, Literals : BOOLEAN]
    /\ built = NewRegexMatcher(config)
    /\ ctxErr = Nil
    /\ frame = Idle
    /\ NoRace

RegexCall ==
    /\ frame.pc = "idle"
    /\ ~built.matcher.nil
    /\ \E api \in {"Match", "Match2"}, path \in RegexPaths :
          frame' = RegexEnter(built.matcher, api, path, ctxErr)
    /\ UNCHANGED <<config, built, ctxErr, race>>

RegexRun ==
    /\ frame.pc \in {"regexps", "reSet"}
    /\ frame' \in Step(built.matcher, frame, ctxErr)
    /\ UNCHANGED <<config, built, ctxErr, race>>

RegexNext == RegexCall \/ RegexRun \/ Cancel

SpecRegex == RegexInit /\ [][RegexNext]_vars

\* The patterns of the list that, as the matcher compiled them, match the path.
RegexHits(patterns, path) == {k \in 1..Len(patterns) : MatchString(patterns[k], path)}

\* A call on the regex matcher has returned without an error.
RegexDone == frame.pc = "done" /\ frame.err = Nil

\* C12: whenever the regex matcher reports a match, Src() is the path that
\* was passed in and Type() is regex.
C12_SrcIsThePath ==
    (RegexDone /\ frame.api = "Match2" /\ Ok(frame.res))
        => (Src(frame.res) = frame.path /\ Type(frame.res) = "regex")

\* C13: with a live context, the regex matcher's Match returns true exactly
\* when one of its compiled patterns matches the path.
C13_MatchIffSomePatternMatches ==
    (RegexDone /\ ctxErr = Nil)
        => (Matched(frame) <=> RegexHits(RegexPatterns(config), frame.path) # {})

\* C14: in literal mode, a path equal to one of the patterns is matched.
C14_LiteralMatchesItself ==
    (/\ RegexDone /\ ctxErr = Nil /\ config.Literals
     /\ \E k \in 1..Len(config.Patterns) : config.Patterns[k] = frame.path)
        => Matched(frame)

\* C15: the pattern a pattern set reports is the first pattern of the list
\* that matches the path.
C15_SetReportsLowestIndex ==
    (RegexDone /\ config.Parallel /\ ~config.Literals /\ Ok(frame.res))
        => /\ RegexHits(config.Patterns, frame.path) # {}
           /\ \A k \in RegexHits(config.Patterns, frame.path) :
                 config.Patterns[k] # Src(frame.res) =>
                    \E j \in 1..(k - 1) : config.Patterns[j] = Src(frame.res)

\* C16: the same call on a matcher built again from the same configuration,
\* the context live throughout, returns what the first call returned.
C16_SecondRunAgrees ==
    (frame.pc = "done" /\ frame.prev.set /\ ctxErr = Nil)
        => (Matched(frame) = frame.prev.ok /\ frame.err = frame.prev.err)

\* The expressions with their texts, and those of them that compile or not.
GlobPairs(opts) == [k \in 1..Len(GlobExprs(opts)) |-> [e |-> GlobExprs(opts)[k], t |-> GlobTexts(opts)[k]]]

GlobGood(opts) == SelectSeq(GlobPairs(opts), LAMBDA x : GlobCompiles(x.e))

GlobBad(opts) == SelectSeq(GlobPairs(opts), LAMBDA x : ~GlobCompiles(x.e))

\* C17: NewMatcher returns a matcher that holds the patterns that compiled,
\* in order, Patterns before RawPatterns, and one error per pattern that did
\* not, carrying the pattern's text; together they are all the patterns.
C17_LenientKeepsWhatCompiles ==
    config.lenient =>
        /\ ~built.matcher.nil
        /\ built.matcher.globs = [k \in 1..Len(GlobGood(config.opts)) |-> GlobGood(config.opts)[k].e]
        /\ built.errs = [k \in 1..Len(GlobBad(config.opts)) |-> GlobBad(config.opts)[k].t]
        /\ Len(built.matcher.globs) + Len(built.errs)
              = Len(config.opts.Patterns) + Len(config.opts.RawPatterns)

\* A pattern failed between two that compiled.
C17_Witness ==
    /\ config.lenient
    /\ Len(built.errs) = 1 /\ Len(built.matcher.globs) >= 2
    /\ ~GlobCompiles(GlobExprs(config.opts)[2])

\* C18: the strict constructors return no matcher and the first pattern that
\* does not compile, or, when all compile, a matcher holding all of them.
C18_StrictFailsOnFirstBadPattern ==
    ~config.lenient =>
        IF GlobBad(config.opts) # <<>>
        THEN built.matcher.nil /\ built.err = GlobBad(config.opts)[1].t
        ELSE /\ ~built.matcher.nil /\ built.err = Nil
             /\ built.matcher.globs = GlobExprs(config.opts)
             /\ built.matcher.parallel = config.parallel

\* The second pattern is the one that fails a strict constructor.
C18_Witness ==
    /\ ~config.lenient /\ built.matcher.nil
    /\ Len(GlobExprs(config.opts)) >= 2
    /\ GlobCompiles(GlobExprs(config.opts)[1])
    /\ built.err = GlobTexts(config.opts)[2]

\* What New got from the constructor of each configured dialect.
PIConstructed == {ds \in {NewRegex(config), NewGitIgnore(config), NewGlob(config)} : Len(ds) = 1}

\* The tags of the configured dialects, in New's order.
PIConfigured ==
    (IF config.Regex.set THEN <<"regex">> ELSE <<>>)
        \o (IF config.GitIgnore.set THEN <<"gitignore">> ELSE <<>>)
        \o (IF config.Glob.set THEN <<"glob">> ELSE <<>>)

GitOneLine(line) ==
    frame.pc = "done" /\ frame.err = Nil /\ config.opts.Patterns = <<line>>

\* C21: the line "/a" matches the name a at the root and not under a
\* directory; the line "a" matches it at the root and under a directory.
C21_LeadingSlashAnchorsAtRoot ==
    /\ (GitOneLine("/a") /\ frame.path = "a") => Matched(frame)
    /\ (GitOneLine("/a") /\ frame.path = "x/a") => ~Matched(frame)
    /\ (GitOneLine("a") /\ frame.path \in {"a", "x/a"}) => Matched(frame)

\* The line "/a" was tried on x/a.
C21_Witness == GitOneLine("/a") /\ frame.path = "x/a" /\ ~Matched(frame)

GitStarLines == {"a/**/b", "**/b", "a/**"}

GitStarPaths == {"a/b", "a/x/b", "a/x/y/b", "b", "x/a/b"}

GitStarInit ==
    /\ config \in [opts : [Patterns : SeqsUpTo(GitStarLines, MaxGitPatterns), FilePath : {""}],
                  parallel : BOOLEAN]
    /\ built = newGitMatcher(config.opts, config.parallel)
    /\ ctxErr = Nil
    /\ frame = Idle
    /\ NoRace

GitStarCall ==
    /\ frame.pc = "idle"
    /\ ~built.matcher.nil
    /\ \E api \in {"Match", "Match2"}, path \in GitStarPaths :
          frame' = GitEnter(built.matcher, api, path, ctxErr)
    /\ UNCHANGED <<config, built, ctxErr, race>>

GitStarNext == GitStarCall \/ GitRun \/ Cancel

\* SpecGit on lines with double stars and paths of several depths.
SpecGitStar == GitStarInit /\ [][GitStarNext]_vars

\* C22: the line "a/**/b" matches a/b, a/x/b and a/x/y/b, and matches
\* neither b nor x/a/b.
C22_MiddleDoubleStar ==
    GitOneLine("a/**/b") =>
        (Matched(frame) <=> frame.path \in {"a/b", "a/x/b", "a/x/y/b"})

\* The line "a/**/b" was tried on a/b, with no directory in between.
C22_Witness == GitOneLine("a/**/b") /\ frame.path = "a/b" /\ Matched(frame)

(***************************************************************************)
(* The order of evaluation inside PathIgnore.Match2 (SpecPI).  frame.m is  *)
(* the matcher the loop is at; at pc "next" the frame still holds what the *)
(* matcher before it returned.                                             *)
(***************************************************************************)
\* The loop moves to another matcher in this step.
PIMoves == frame'.m # frame.m

\* The call returns in this step.
PIReturns == frame.pc \notin {"done", "panic"} /\ frame'.pc = "done" /\ frame'.top = "Match2"

\* The move is from a matcher that returned no match and no error to the next.
PIMoveInOrder ==
    /\ frame'.m = frame.m + 1
    /\ (frame.m = 0) \/ (frame'.pc = "next" /\ frame'.err = Nil /\ ~Ok(frame'.res))

\* The return is the error or the match of the matcher the loop is at, or
\* match.NoMatch after the last matcher.
PIReturnInOrder ==
    /\ frame'.m \in {frame.m, 1}
    /\ \/ (frame'.err # Nil /\ frame'.m <= Len(built.matcher.matchers))
       \/ (frame'.err = Nil /\ Ok(frame'.res) /\ frame'.m <= Len(built.matcher.matchers))
       \/ (frame'.err = Nil /\ frame'.res = NoMatch
              /\ frame'.m = Len(built.matcher.matchers) + 1)

\* C23: the loop of PathIgnore.Match2 only moves from a matcher to the one
\* after it, and only when that matcher returned no match and no error; the
\* call returns the error or the match of the matcher it is at, and no later
\* matcher is called.
C23_NoMatcherAfterErrorOrMatch ==
    [][(PIMoves => PIMoveInOrder) /\ (PIReturns => PIReturnInOrder)]_vars

\* The second of three matchers returned an error and the call returned it.
C23_Witness ==
    /\ frame.pc = "done" /\ frame.top = "Match2"
    /\ Len(built.matcher.matchers) = 3 /\ frame.m = 2 /\ frame.err # Nil

\* The sequential loop of glob Match2 is about to take a turn at a glob.
GlobTurn == frame.pc = "globs" /\ frame.i <= Len(built.matcher.globs)

\* No glob before the one the loop is at matches the path.
NoEarlierGlobMatched ==
    \A k \in 1..(frame.i - 1) : ~GlobMatch(built.matcher.globs[k], frame.path)

\* The turn ends the call with the context error and no match, the glob untested.
GlobTurnCancelled ==
    /\ frame'.pc = "done" /\ frame'.err = ctxErr /\ ~Ok(frame'.res)
    /\ frame'.i = frame.i

\* The turn tests the glob the loop is at: a match ends the call with the
\* path, otherwise the loop is at the next glob.
GlobTurnTested ==
    \/ /\ GlobMatch(built.matcher.globs[frame.i], frame.path)
       /\ frame'.pc = "done" /\ frame'.err = Nil /\ Src(frame'.res) = frame.path
       /\ frame'.i = frame.i
    \/ /\ ~GlobMatch(built.matcher.globs[frame.i], frame.path)
       /\ frame'.pc = "globs" /\ frame'.i = frame.i + 1

\* C24: sequential glob Match2 takes the globs in order and looks at the
\* context before each test: a turn at glob i finds that no earlier glob
\* matched; with the context cancelled it returns the context error with a
\* non-matching result and tests neither glob i nor a later one; with a live
\* context it tests glob i, and a match ends the call before any later glob.
C24_ContextCheckedBeforeEachGlob ==
    [][(GlobTurn /\ frame' # frame) =>
          (/\ NoEarlierGlobMatched
           /\ (ctxErr # Nil) => GlobTurnCancelled
           /\ (ctxErr = Nil) => GlobTurnTested)]_vars

\* The context was cancelled after the first glob was tested: the call returned
\* the error without testing the second glob, which matches the path.
C24_Witness ==
    /\ frame.pc = "done" /\ ~config.parallel /\ frame.api = "Match2"
    /\ frame.err # Nil /\ ~Ok(frame.res)
    /\ frame.i = 2 /\ Len(built.matcher.globs) = 2
    /\ GlobMatch(built.matcher.globs[2], frame.path)

\* concurrentMatch has started every task and the task that closes the channel.
RaceStarted == closer = "wait"

\* Every task has returned and the channel is closed by the closing task.
RaceOver == closer = "done" /\ \A t \in 1..Len(tasks) : TaskOver(t)

\* C25: in the race whose tasks select between matchCtx.Done() and the send,
\* with tasks and closing task scheduled fairly, once the race is started
\* every task and the closing task end, whatever the caller does and however
\* many globs match: no task stays at its select.
C25_EveryTaskAndCloserEnd == RaceStarted ~> RaceOver

\* Two globs matched the path at once; the call returned and all tasks are over.
C25_Witness ==
    /\ RaceOver /\ frame.pc = "done" /\ Len(tasks) = 2
    /\ Cardinality(GlobHits(built.matcher.globs, frame.path)) = 2

(***************************************************************************)
(* concurrentMatch of match/glob/glob.go: the tasks send without a select, *)
(* the caller waits for all of them before it reads the channel, and       *)
(* close(foundSrc) and stopMatch() are deferred to the return.             *)
(***************************************************************************)

\* Match2 of glob.go on a parallel matcher: no look at ctx before the race.
OldGlobEnter(api, path, cerr) ==
    [Idle EXCEPT !.api = api, !.ctx0 = cerr, !.path = path, !.i = 1,
                 !.res = Result("glob", ""), !.pc = "spawn"]

\* wg.Wait() in the caller: returns once every task is over.
WaitAll ==
    /\ frame.pc = "spawn"
    /\ frame.i > Len(built.matcher.globs)
    /\ \A t \in 1..Len(tasks) : TaskOver(t)
    /\ frame' = [frame EXCEPT !.pc = "read"]
    /\ UNCHANGED <<config, built, ctxErr, race>>

\* matchCtx.Err(): the caller's error, or Canceled once stopMatch() ran,
\* whichever came first; the order of the two is not kept in the state.
MatchCtxErrs ==
    (IF ctxErr # Nil THEN {ctxErr} ELSE {}) \cup (IF stopped THEN {"Canceled"} ELSE {})

\* The final select, case p := <-foundSrc; then the deferred calls.
ReadFound ==
    /\ frame.pc = "read"
    /\ foundSrc.buf # <<>>
    /\ frame' = GlobFound(frame, Head(foundSrc.buf))
    /\ foundSrc' = [buf |-> <<>>, closed |-> TRUE]
    /\ stopped' = TRUE
    /\ UNCHANGED <<config, built, ctxErr, tasks, closer>>

\* The final select, case <-matchCtx.Done(): ("", matchCtx.Err()).
ReadDone ==
    /\ frame.pc = "read"
    /\ MatchCtxDone
    /\ \E err \in MatchCtxErrs : frame' = Return(frame, Result("glob", ""), err)
    /\ foundSrc' = [foundSrc EXCEPT !.closed = TRUE]
    /\ stopped' = TRUE
    /\ UNCHANGED <<config, built, ctxErr, tasks, closer>>

\* The final select, default: ("", nil) when no other case is ready.
ReadDefault ==
    /\ frame.pc = "read"
    /\ foundSrc.buf = <<>> /\ ~MatchCtxDone
    /\ frame' = GlobDone(frame)
    /\ foundSrc' = [foundSrc EXCEPT !.closed = TRUE]
    /\ stopped' = TRUE
    /\ UNCHANGED <<config, built, ctxErr, tasks, closer>>

OldGlobInit ==
    /\ config \in [opts : [Patterns : SeqsUpTo(GlobPatterns, MaxGlobs), RawPatterns : {<<>>}],
                   parallel : {TRUE}, lenient : {FALSE}]
    /\ built = GlobBuild(config)
    /\ ctxErr = Nil
    /\ frame = Idle
    /\ NoRace

OldGlobCall ==
    /\ frame.pc = "idle"
    /\ ~built.matcher.nil
    /\ \E path \in GlobPaths : frame' = OldGlobEnter("Match2", path, ctxErr)
    /\ UNCHANGED <<config, built, ctxErr, race>>

\* The steps of the tasks: the test, the bare send foundSrc <- path, stopMatch().
OldTasks == \E t \in 1..Len(tasks) : TaskTest(t) \/ TaskSend(t) \/ TaskStop(t)

\* The steps of the caller inside concurrentMatch.
OldCaller == Spawn \/ WaitAll \/ ReadFound \/ ReadDone \/ ReadDefault

OldGlobNext == OldGlobCall \/ OldCaller \/ OldTasks \/ Cancel

SpecGlobOld == OldGlobInit /\ [][OldGlobNext]_vars

\* The tasks and the caller are scheduled fairly.
SpecGlobOldFair == SpecGlobOld /\ WF_vars(OldTasks) /\ WF_vars(OldCaller)

\* C26: in the variant that sends unconditionally and waits for all tasks
\* before reading, a call that has begun returns, for every glob list and
\* path, under fair scheduling of the tasks and the caller.
C26_OldCallReturns == (frame.pc = "spawn") ~> (frame.pc = "done")

\* C27: a gitignore Match2 that returns a non-nil error returns a MatchInfo
\* whose Ok() is false, also when the cancellation is seen after a positive
\* rule matched and before the negative rules are done.
C27_ErrorMeansNotOk ==
    (frame.pc = "done" /\ frame.err # Nil) => ~Ok(frame.res)

\* What the sequential gitignore matcher of the same lines answers for the
\* path under a live context: a positive rule matches and no negative one.
SequentialGitSays(patterns, path) ==
    SomeLine(patterns, FALSE, path) /\ ~SomeLine(patterns, TRUE, path)

\* C28: NewParallelMatcher succeeds exactly when NewMatcher succeeds on the
\* same lines, and under a live context the parallel matcher returns the
\* matched boolean the sequential one returns.
C28_ParallelGitAgreesWithSequential ==
    config.parallel =>
        /\ (built.err = Nil) <=> (newGitMatcher(config.opts, FALSE).err = Nil)
        /\ (frame.pc = "done" /\ ctxErr = Nil) =>
              (Matched(frame) <=> SequentialGitSays(config.opts.Patterns, frame.path))

\* What the sequential regex matcher of the same patterns answers for the
\* path under a live context: the first pattern that matches sets res.src
\* to the path, and Ok() is res.src != "".
SequentialRegexSays(patterns, path) ==
    RegexHits(patterns, path) # {} /\ Ok(Result("regex", path))

\* C29: for a non-empty list of valid non-literal patterns and any path, the
\* matcher built in parallel mode returns, under a live context, the matched
\* boolean the sequential matcher of the same list returns.
C29_ParallelRegexAgreesWithSequential ==
    (config.Parallel /\ ~config.Literals /\ RegexDone /\ ctxErr = Nil) =>
        (Matched(frame) <=> SequentialRegexSays(config.Patterns, frame.path))

\* C30: the result channel of the concurrent glob race is closed only after
\* every per-glob task has finished, so no task is left that could send on
\* the closed channel, however many globs match and whenever the context is
\* cancelled.
C30_ClosedOnlyAfterEveryTask ==
    foundSrc.closed => \A t \in 1..Len(tasks) : TaskOver(t)

\* The channel was closed in a race with two matching globs and a cancelled context.
C30_Witness ==
    /\ foundSrc.closed /\ Len(tasks) = 2 /\ ctxErr # Nil
    /\ Cardinality(GlobHits(built.matcher.globs, frame.path)) = 2

========================================================================
